---- MODULE Spec2Model ----
(***************************************************************************)
(* Digital nets in base 2 (netbuilder/DigitalNet.h): AbstractDigitalNet    *)
(* and DigitalNet<NC>.  A net is a record of its fields; generating        *)
(* matrices and generating values live in two heaps and the nets hold      *)
(* addresses into them (std::shared_ptr), so that sharing is identity of   *)
(* addresses and not equality of contents.                                 *)
(***************************************************************************)
EXTENDS Integers, Sequences, FiniteSets, TLC

VARIABLES
    nets,      \* the nets constructed so far, in order of construction
    matHeap,   \* GeneratingMatrix objects, address = index
    valHeap,   \* GenValue objects, address = index
    origin,    \* per net: the call that produced it and the net as it returned it
    res,       \* the last call and what it returned
    wk,        \* per worker: progress inside appendNewCoordinate
    alive,     \* the nets not yet destroyed
    matUse,    \* per GeneratingMatrix object: shared_ptr use count
    valUse     \* per GenValue object: shared_ptr use count

own == <<alive, matUse, valUse>>

vars == <<nets, matHeap, valHeap, origin, res, wk, alive, matUse, valUse>>

(* ------------------------------ bounds --------------------------------- *)

\* nets constructed in one run
MaxNets == 3
\* largest dimension argument passed to a constructor
MaxDimArg == 2
\* width in bits of uInteger (scaled down from the host's unsigned long)
UIntBits == 3
\* largest interlacing factor passed to format
MaxInterlace == 2
\* concurrent callers of appendNewCoordinate
NumWorkers == 2

\* two distinct generating values tell siblings apart
GenValues == {1, 2}
\* size parameters reach past the width of uInteger
SizeParameters == 0..(UIntBits + 1)
DimArgs == 0..MaxDimArg
Workers == 1..NumWorkers
UIntModulus == 2^UIntBits

RECURSIVE SeqsUpTo(_, _)
SeqsUpTo(S, n) ==
    IF n = 0 THEN {<<>>}
    ELSE LET shorter == SeqsUpTo(S, n - 1)
         IN  shorter \cup {Append(q, x) : q \in {p \in shorter : Len(p) = n - 1}, x \in S}

\* value sequences shorter than, as long as and longer than a dimension argument
GenValueSeqs == SeqsUpTo(GenValues, MaxDimArg)

(* ------------------- construction method (traits) ---------------------- *)

\* ConstructionMethod::nRows
nRows(sizeParameter) == sizeParameter

\* ConstructionMethod::nCols
nCols(sizeParameter) == sizeParameter

\* ConstructionMethod::createGeneratingMatrix: a pure function of the
\* generating value, the size parameter and the coordinate index.
createGeneratingMatrix(genValue, sizeParameter, coord) ==
    [nRows |-> nRows(sizeParameter), nCols |-> nCols(sizeParameter),
     genValue |-> genValue, coord |-> coord]

\* ConstructionMethod::isSequenceViewable
isSequenceViewableFlag == TRUE

(* --------------------------- AbstractDigitalNet ------------------------ *)

\* AbstractDigitalNet(dimension, nRows, nCols [, genMatrices]) with the
\* members DigitalNet adds.
Net(dimension, sizeParameter, genValues, genMatrices) ==
    [m_dimension |-> dimension,
     m_nRows |-> nRows(sizeParameter),
     m_nCols |-> nCols(sizeParameter),
     m_generatingMatrices |-> genMatrices,
     m_sizeParameter |-> sizeParameter,
     m_genValues |-> genValues]

numColumns(net) == net.m_nCols

numRows(net) == net.m_nRows

dimension(net) == net.m_dimension

\* LatBuilder::intPow on uInteger: square and multiply, every product
\* reduced modulo 2^UIntBits as unsigned arithmetic does.
RECURSIVE intPowLoop(_, _, _)
intPowLoop(result, base, exponent) ==
    IF exponent = 0 THEN result
    ELSE intPowLoop(IF exponent % 2 = 1 THEN (result * base) % UIntModulus ELSE result,
                    (base * base) % UIntModulus,
                    exponent \div 2)

intPow(base, exponent) == intPowLoop(1, base % UIntModulus, exponent)

numPoints_swapped(net) == intPow(net.m_nCols, 2)

numPoints(net) == intPow(2, net.m_nCols)

size(net) == intPow(2, net.m_nCols)

(* ------------------------------ DigitalNet ----------------------------- *)

\* isSequenceViewable(): the flag of the construction method
isSequenceViewable(net) == isSequenceViewableFlag

\* sizeParameter(): the name is taken by the arguments of the constructors
sizeParameterOf(net) == net.m_sizeParameter

(* ---------------------------- shared ownership ------------------------- *)

\* copying a vector of shared_ptr (lines 252, 256): one more owner of every
\* object it points to
retain(use, pointers) ==
    [a \in DOMAIN use |-> use[a] + Cardinality({j \in DOMAIN pointers : pointers[j] = a})]

\* destroying a vector of shared_ptr (~DigitalNet, ~AbstractDigitalNet): one
\* owner less of every object it points to
release(use, pointers) ==
    [a \in DOMAIN use |-> use[a] - Cardinality({j \in DOMAIN pointers : pointers[j] = a})]

\* what the memory of a released object holds
FreedMatrix == [nRows |-> 0, nCols |-> 0, genValue |-> 0, coord |-> 0]

FreedValue == 0

\* an object whose use count reached 0 is deleted
reclaim(heap, use, freed) == [a \in DOMAIN heap |-> IF use[a] = 0 THEN freed ELSE heap[a]]

\* the objects a vector of pointers leads to
ContentsOf(pointers, heap) == [j \in DOMAIN pointers |-> heap[pointers[j]]]

\* addresses n+1 .. n+k
Fresh(n, k) == [j \in 1..k |-> n + j]

\* DigitalNet(dimension, sizeParameter, genValues): one matrix and one value
\* object per element of genValues, built in order with dimension_j = 0, 1, ..
DigitalNet(dimensionArg, sizeParameter, genValues, mh, vh) ==
    LET n == Len(genValues)
        mats == [j \in 1..n |-> createGeneratingMatrix(genValues[j], sizeParameter, j - 1)]
    IN  [net |-> Net(dimensionArg, sizeParameter, Fresh(Len(vh), n), Fresh(Len(mh), n)),
         matHeap |-> mh \o mats,
         valHeap |-> vh \o genValues,
         built |-> [j \in 1..n |-> <<genValues[j], sizeParameter, j - 1>>]]

\* DigitalNet(dimension = 0, sizeParameter = SizeParameter()): placeholder
DigitalNetPlaceholder(dimensionArg, sizeParameter) ==
    Net(dimensionArg, sizeParameter, <<>>, <<>>)

\* the sharing constructor leaving the size parameter default-constructed
DigitalNetShared_defaultSize(dimensionArg, sizeParameter, genValues, genMatrices) ==
    Net(dimensionArg, 0, genValues, genMatrices)

\* private DigitalNet(dimension, sizeParameter, genValues, genMatrices)
DigitalNetShared(dimensionArg, sizeParameter, genValues, genMatrices) ==
    Net(dimensionArg, sizeParameter, genValues, genMatrices)

\* the new coordinate numbered from 1 instead of from 0
newCoordinateMatrix_oneBased(net, newGenValue) ==
    createGeneratingMatrix(newGenValue, net.m_sizeParameter, net.m_dimension + 1)

\* line 249: the matrix of the new coordinate, built with the receiver's
\* dimension as coordinate index
newCoordinateMatrix(net, newGenValue) ==
    createGeneratingMatrix(newGenValue, net.m_sizeParameter, net.m_dimension)

\* lines 252-253 and 256-257: copy the vector of pointers and push one more
copyAndPush(pointers, newPointer) == Append(pointers, newPointer)

\* line 260: the dimension handed to the private constructor
extendedDimension(net) == net.m_dimension + 1

\* appendNewCoordinate(newGenValue) const, run from entry to return
appendNewCoordinate(net, newGenValue, mh, vh) ==
    LET newMat == Len(mh) + 1
        genMats == copyAndPush(net.m_generatingMatrices, newMat)
        newVal == Len(vh) + 1
        genVals == copyAndPush(net.m_genValues, newVal)
    IN  [receiver |-> net,
         net |-> DigitalNetShared(extendedDimension(net), net.m_sizeParameter, genVals, genMats),
         matHeap |-> Append(mh, newCoordinateMatrix(net, newGenValue)),
         valHeap |-> Append(vh, newGenValue),
         built |-> << <<newGenValue, net.m_sizeParameter, net.m_dimension>> >>]

\* generatingMatrix(coord): operator[] on the vector of pointers, unchecked.
\* Past the end of the vector the read is undefined: the call crashes or
\* yields whatever the memory holds (obj 0: no matrix of the heap).
generatingMatrix(net, coord, mh) ==
    IF coord + 1 \in DOMAIN net.m_generatingMatrices
    THEN {[status |-> "ok", obj |-> net.m_generatingMatrices[coord + 1]]}
    ELSE {[status |-> "crash", obj |-> 0], [status |-> "garbage", obj |-> 0]}

(* ------------------------------- format -------------------------------- *)
\* Text is a sequence of tokens: a decimal digit, the newline, or a literal
\* of the source that holds no newline.

DigitChars == <<"0", "1", "2", "3", "4", "5", "6", "7", "8", "9">>

\* std::to_string / operator<< on an unsigned integer
RECURSIVE to_string(_)
to_string(n) ==
    IF n < 10 THEN <<DigitChars[n + 1]>>
    ELSE to_string(n \div 10) \o <<DigitChars[(n % 10) + 1]>>

endl == "\n"

\* GeneratingMatrix::formatToColumnsReverse
formatToColumnsReverse(M) ==
    <<"matrix ">> \o to_string(M.genValue) \o <<" at ">> \o to_string(M.coord)

\* ConstructionMethod::format
ConstructionMethodFormat(genMatrices, genValues, sizeParameter, outputStyle, interlacingFactor) ==
    <<"formatExtra">>

pop_back(text) == SubSeq(text, 1, Len(text) - 1)

\* the interlacing factor forgotten
dimensionOfPoints_undivided(net, interlacingFactor) == dimension(net)

\* line 276: dimension() / interlacingFactor, for a factor that is not 0
dimensionOfPoints(net, interlacingFactor) == dimension(net) \div interlacingFactor

\* lines 273-280, quotient standing for dimension() / interlacingFactor
terminalBlock(net, quotient, interlacingFactor) ==
    to_string(numColumns(net)) \o <<"  // Number of columns", endl>>
    \o to_string(numRows(net)) \o <<"  // Number of rows", endl>>
    \o to_string(numPoints(net)) \o <<"  // Number of points", endl>>
    \o to_string(quotient) \o <<"  // Dimension of points", endl>>
    \o (IF interlacingFactor > 1
        THEN to_string(interlacingFactor) \o <<"  // Interlacing factor", endl>>
             \o to_string(dimension(net))
             \o <<"  // Number of components = interlacing factor x dimension", endl>>
        ELSE <<>>)

RECURSIVE matrixLines(_, _, _)
\* lines 302-306: one line per generating value, from coord on
matrixLines(net, coord, mh) ==
    IF coord >= Len(net.m_genValues) THEN <<>>
    ELSE formatToColumnsReverse(mh[net.m_generatingMatrices[coord + 1]]) \o <<endl>>
         \o matrixLines(net, coord + 1, mh)

\* lines 285-307
netBlock(net, interlacingFactor, mh) ==
    LET dimension_as_str == to_string(dimension(net))
        nb_col_as_str == to_string(numColumns(net))
    IN  pop_back(
          <<"# Parameters for a digital net in base 2", endl>>
          \o dimension_as_str \o <<"    # ">> \o dimension_as_str \o <<" dimensions", endl>>
          \o (IF interlacingFactor > 1
              THEN to_string(interlacingFactor) \o <<"  // Interlacing factor", endl>>
                   \o to_string(dimension(net))
                   \o <<"  // Number of components = interlacing factor x dimension", endl>>
              ELSE <<>>)
          \o nb_col_as_str \o <<"   # k = ">> \o nb_col_as_str \o <<",  n = 2^">>
          \o nb_col_as_str \o <<" = ">>
          \o to_string(numPoints(net)) \o <<" points", endl>>
          \o <<"31   # r = 31 binary output digits", endl>>
          \o (IF interlacingFactor = 1
              THEN <<"# Columns of gen. matrices C_1,...,C_s, one matrix per line:", endl>>
              ELSE <<"# Columns of gen. matrices C_1,...,C_{ds}, one matrix per line:", endl>>)
          \o matrixLines(net, 0, mh))

OutputStyles == {"TERMINAL", "NET"}

\* format(outputStyle, interlacingFactor).  In the TERMINAL branch an
\* interlacing factor of 0 divides by zero, which is undefined: the call
\* traps or goes on with a quotient of 0.
format(net, outputStyle, interlacingFactor, mh, vh) ==
    LET extra == ConstructionMethodFormat(net.m_generatingMatrices, net.m_genValues,
                                          net.m_sizeParameter, outputStyle, interlacingFactor)
    IN  IF outputStyle = "TERMINAL"
        THEN IF interlacingFactor = 0
             THEN {[status |-> "crash", text |-> <<>>],
                   [status |-> "ok", text |-> terminalBlock(net, 0, interlacingFactor) \o extra]}
             ELSE {[status |-> "ok",
                    text |-> terminalBlock(net, dimensionOfPoints(net, interlacingFactor),
                                           interlacingFactor) \o extra]}
        ELSE {[status |-> "ok", text |-> netBlock(net, interlacingFactor, mh) \o extra]}

(* ------------------------------- actions ------------------------------- *)

NoResult == [op |-> "none"]

Idle == [pc |-> "idle", receiver |-> 0, newGenValue |-> 0, newMat |-> 0,
         genMats |-> <<>>, genVals |-> <<>>]

Init ==
    /\ nets = <<>>
    /\ matHeap = <<>>
    /\ valHeap = <<>>
    /\ origin = <<>>
    /\ res = NoResult
    /\ wk = [w \in Workers |-> Idle]
    /\ alive = {}
    /\ matUse = <<>>
    /\ valUse = <<>>

\* coordinates asked of generatingMatrix
Coords == 0..(MaxDimArg + 1)

\* the caller holds no unread result and may make its next call
Ready == res = NoResult

\* the caller takes the result of its last call
Consume ==
    /\ res # NoResult
    /\ res' = NoResult
    /\ UNCHANGED <<nets, matHeap, valHeap, origin, wk, own>>

\* a caller builds a net from a dimension, a size parameter and values
ConstructFromValues ==
    /\ Ready
    /\ nets = <<>>
    /\ \E d \in DimArgs, s \in SizeParameters, gv \in GenValueSeqs :
        /\ LET r == DigitalNet(d, s, gv, matHeap, valHeap)
           IN  /\ nets' = Append(nets, r.net)
               /\ matHeap' = r.matHeap
               /\ valHeap' = r.valHeap
               /\ origin' = Append(origin, [kind |-> "values", parent |-> 0,
                                            dimArg |-> d, genValues |-> gv,
                                            made |-> r.net,
                                            matrices |-> ContentsOf(r.net.m_generatingMatrices,
                                                                    r.matHeap)])
               /\ res' = [op |-> "DigitalNet", net |-> Len(nets) + 1, built |-> r.built]
               /\ alive' = alive \cup {Len(nets) + 1}
               /\ matUse' = matUse \o [j \in DOMAIN gv |-> 1]
               /\ valUse' = valUse \o [j \in DOMAIN gv |-> 1]
        /\ UNCHANGED wk

\* a caller builds a placeholder net
ConstructPlaceholder ==
    /\ Ready
    /\ nets = <<>>
    /\ \E d \in DimArgs, s \in SizeParameters :
        /\ nets' = Append(nets, DigitalNetPlaceholder(d, s))
        /\ origin' = Append(origin, [kind |-> "placeholder", parent |-> 0,
                                     dimArg |-> d, genValues |-> <<>>,
                                     made |-> DigitalNetPlaceholder(d, s),
                                     matrices |-> <<>>])
        /\ res' = [op |-> "DigitalNetPlaceholder", net |-> Len(nets) + 1, built |-> <<>>]
        /\ alive' = alive \cup {Len(nets) + 1}
        /\ UNCHANGED <<matHeap, valHeap, wk, matUse, valUse>>

\* a caller extends net i by one coordinate
AppendNewCoordinate ==
    /\ Ready
    /\ Len(nets) < MaxNets
    /\ \E i \in alive, v \in GenValues :
        /\ LET r == appendNewCoordinate(nets[i], v, matHeap, valHeap)
           IN  /\ nets' = Append([nets EXCEPT ![i] = r.receiver], r.net)
               /\ matHeap' = r.matHeap
               /\ valHeap' = r.valHeap
               /\ origin' = Append(origin, [kind |-> "append", parent |-> i,
                                            dimArg |-> 0, genValues |-> <<v>>,
                                            made |-> r.net,
                                            matrices |-> ContentsOf(r.net.m_generatingMatrices,
                                                                    r.matHeap)])
               /\ res' = [op |-> "appendNewCoordinate", receiver |-> i, before |-> nets[i],
                          newGenValue |-> v, net |-> Len(nets) + 1, built |-> r.built]
               /\ alive' = alive \cup {Len(nets) + 1}
               /\ matUse' = Append(retain(matUse, nets[i].m_generatingMatrices), 1)
               /\ valUse' = Append(retain(valUse, nets[i].m_genValues), 1)
        /\ UNCHANGED wk

GeneratingMatrixCall ==
    /\ Ready
    /\ \E i \in alive, coord \in Coords :
        \E out \in generatingMatrix(nets[i], coord, matHeap) :
            /\ res' = [op |-> "generatingMatrix", net |-> i, coord |-> coord,
                       status |-> out.status, obj |-> out.obj]
            /\ UNCHANGED <<nets, matHeap, valHeap, origin, wk, own>>

NumPointsCall ==
    /\ Ready
    /\ \E i \in alive :
        /\ res' = [op |-> "numPoints", net |-> i, value |-> numPoints(nets[i])]
        /\ UNCHANGED <<nets, matHeap, valHeap, origin, wk, own>>

SizeCall ==
    /\ Ready
    /\ \E i \in alive :
        /\ res' = [op |-> "size", net |-> i, value |-> size(nets[i])]
        /\ UNCHANGED <<nets, matHeap, valHeap, origin, wk, own>>

IsSequenceViewableCall ==
    /\ Ready
    /\ \E i \in alive :
        /\ res' = [op |-> "isSequenceViewable", net |-> i,
                   value |-> isSequenceViewable(nets[i])]
        /\ UNCHANGED <<nets, matHeap, valHeap, origin, wk, own>>

SizeParameterCall ==
    /\ Ready
    /\ \E i \in alive :
        /\ res' = [op |-> "sizeParameter", net |-> i, value |-> sizeParameterOf(nets[i])]
        /\ UNCHANGED <<nets, matHeap, valHeap, origin, wk, own>>

FormatCall ==
    /\ Ready
    /\ \E i \in alive, style \in OutputStyles, f \in 0..MaxInterlace :
        \E out \in format(nets[i], style, f, matHeap, valHeap) :
            /\ res' = [op |-> "format", net |-> i, outputStyle |-> style,
                       interlacingFactor |-> f, status |-> out.status, text |-> out.text]
            /\ UNCHANGED <<nets, matHeap, valHeap, origin, wk, own>>

\* ~DigitalNet() = default (line 239): the net lets go of its matrices and
\* values; an object no other owner holds is deleted.  A net a thread is
\* still extending is not destroyed.
Destroy ==
    /\ Ready
    /\ \E i \in alive :
        /\ \A w \in Workers : wk[w].pc # "idle" => wk[w].receiver # i
        /\ alive' = alive \ {i}
        /\ matUse' = release(matUse, nets[i].m_generatingMatrices)
        /\ valUse' = release(valUse, nets[i].m_genValues)
        /\ matHeap' = reclaim(matHeap, matUse', FreedMatrix)
        /\ valHeap' = reclaim(valHeap, valUse', FreedValue)
    /\ UNCHANGED <<nets, origin, res, wk>>

(* Several workers inside appendNewCoordinate at once, one statement at a *)
(* time.  Allocation (new) is atomic; everything else reads the receiver.  *)

Active == {w \in Workers : wk[w].pc # "idle"}

\* worker w enters appendNewCoordinate(v) on net i
WorkerCall(w) ==
    /\ wk[w].pc = "idle"
    /\ Len(nets) + Cardinality(Active) < MaxNets
    /\ \E i \in alive, v \in GenValues :
        wk' = [wk EXCEPT ![w] = [Idle EXCEPT !.pc = "newMat", !.receiver = i,
                                              !.newGenValue = v]]
    /\ UNCHANGED <<nets, matHeap, valHeap, origin, res, own>>

\* line 249
WorkerNewMat(w) ==
    /\ wk[w].pc = "newMat"
    /\ matHeap' = Append(matHeap, newCoordinateMatrix(nets[wk[w].receiver], wk[w].newGenValue))
    /\ wk' = [wk EXCEPT ![w].newMat = Len(matHeap) + 1, ![w].pc = "genMats"]
    /\ matUse' = Append(matUse, 1)
    /\ UNCHANGED <<nets, valHeap, origin, res, alive, valUse>>

\* lines 252-253
WorkerGenMats(w) ==
    /\ wk[w].pc = "genMats"
    /\ wk' = [wk EXCEPT ![w].genMats =
                            copyAndPush(nets[wk[w].receiver].m_generatingMatrices, wk[w].newMat),
                        ![w].pc = "genVals"]
    /\ matUse' = retain(matUse, nets[wk[w].receiver].m_generatingMatrices)
    /\ UNCHANGED <<nets, matHeap, valHeap, origin, res, alive, valUse>>

\* lines 256-257
WorkerGenVals(w) ==
    /\ wk[w].pc = "genVals"
    /\ valHeap' = Append(valHeap, wk[w].newGenValue)
    /\ wk' = [wk EXCEPT ![w].genVals =
                            copyAndPush(nets[wk[w].receiver].m_genValues, Len(valHeap) + 1),
                        ![w].pc = "return"]
    /\ valUse' = Append(retain(valUse, nets[wk[w].receiver].m_genValues), 1)
    /\ UNCHANGED <<nets, matHeap, origin, res, alive, matUse>>

\* line 260
WorkerReturn(w) ==
    /\ wk[w].pc = "return"
    /\ LET net == nets[wk[w].receiver]
           child == DigitalNetShared(extendedDimension(net), net.m_sizeParameter,
                                     wk[w].genVals, wk[w].genMats)
       IN  /\ nets' = Append(nets, child)
           /\ origin' = Append(origin, [kind |-> "append", parent |-> wk[w].receiver,
                                        dimArg |-> 0, genValues |-> <<wk[w].newGenValue>>,
                                        made |-> child,
                                        matrices |-> ContentsOf(wk[w].genMats, matHeap)])
    /\ wk' = [wk EXCEPT ![w] = Idle]
    /\ alive' = alive \cup {Len(nets) + 1}
    /\ UNCHANGED <<matHeap, valHeap, res, matUse, valUse>>

Next ==
    \/ ConstructFromValues
    \/ ConstructPlaceholder
    \/ AppendNewCoordinate
    \/ GeneratingMatrixCall
    \/ NumPointsCall
    \/ SizeCall
    \/ IsSequenceViewableCall
    \/ SizeParameterCall
    \/ FormatCall
    \/ Consume

Spec == Init /\ [][Next]_vars

NextConc ==
    \/ ConstructFromValues
    \/ ConstructPlaceholder
    \/ Consume
    \/ \E w \in Workers :
        \/ WorkerCall(w)
        \/ WorkerNewMat(w)
        \/ WorkerGenMats(w)
        \/ WorkerGenVals(w)
        \/ WorkerReturn(w)

NextLife ==
    \/ ConstructFromValues
    \/ ConstructPlaceholder
    \/ AppendNewCoordinate
    \/ Destroy
    \/ GeneratingMatrixCall
    \/ Consume

\* nets constructed, extended, destroyed and looked into
SpecLife == Init /\ [][NextLife]_vars

\* the nets under concurrent extension
SpecConc == Init /\ [][NextConc]_vars

(* ------------------------------- claims -------------------------------- *)

Range(f) == {f[x] : x \in DOMAIN f}

\* the matrices a net stores, by content
Matrices(net) == [j \in DOMAIN net.m_generatingMatrices |-> matHeap[net.m_generatingMatrices[j]]]

\* the generating values a net stores, by content
Values(net) == [j \in DOMAIN net.m_genValues |-> valHeap[net.m_genValues[j]]]

\* slot j (0-indexed) of both nets exists and holds the same matrix object
\* and the same value object
SameSlot(netA, netB, j) ==
    /\ j + 1 \in DOMAIN netA.m_generatingMatrices
    /\ j + 1 \in DOMAIN netB.m_generatingMatrices
    /\ netA.m_generatingMatrices[j + 1] = netB.m_generatingMatrices[j + 1]
    /\ j + 1 \in DOMAIN netA.m_genValues
    /\ j + 1 \in DOMAIN netB.m_genValues
    /\ netA.m_genValues[j + 1] = netB.m_genValues[j + 1]

\* C1: after net2 = net1.appendNewCoordinate(v), for every j < dimension(net1)
\* matrix slot j and value slot j of net2 are the very objects of slot j of
\* net1, and net1 (dimension, row and column count, size parameter, matrix
\* and value sequence) is what it was before the call.
C1_PrefixSharedReceiverUnchanged ==
    res.op = "appendNewCoordinate" =>
        /\ nets[res.receiver] = res.before
        /\ \A j \in 0..(dimension(res.before) - 1) :
               SameSlot(nets[res.net], nets[res.receiver], j)

\* C2: net2 = net1.appendNewCoordinate(v) has dimension net1.dimension() + 1,
\* net2.generatingMatrix(net1.dimension()) is buildMatrix(v, sizeParam,
\* net1.dimension()), the builder ran exactly once, with the receiver's
\* dimension as coordinate index, and exactly one value/matrix pair was added.
C2_ExtensionResult ==
    res.op = "appendNewCoordinate" =>
        LET net1 == res.before
            net2 == nets[res.net]
            d == dimension(net1)
        IN  /\ dimension(net2) = d + 1
            /\ \A out \in generatingMatrix(net2, d, matHeap) :
                   /\ out.status = "ok"
                   /\ matHeap[out.obj]
                        = createGeneratingMatrix(res.newGenValue, net1.m_sizeParameter, d)
            /\ res.built = << <<res.newGenValue, net1.m_sizeParameter, d>> >>
            /\ Len(net2.m_generatingMatrices) = Len(net1.m_generatingMatrices) + 1
            /\ Len(net2.m_genValues) = Len(net1.m_genValues) + 1

\* C4: in every net, every stored matrix i is buildMatrix(stored value i,
\* size parameter, i): coordinates are built with indices 0, 1, 2, .. in
\* order and nothing breaks the relation afterwards.
C4_MatrixIsFunctionOfValueAndIndex ==
    \A k \in DOMAIN nets :
        /\ DOMAIN nets[k].m_generatingMatrices = DOMAIN nets[k].m_genValues
        /\ \A j \in DOMAIN nets[k].m_generatingMatrices :
               Matrices(nets[k])[j]
                 = createGeneratingMatrix(Values(nets[k])[j], nets[k].m_sizeParameter, j - 1)

\* C5: every net holds as many values as matrices as its dimension says;
\* construction from values makes the dimension argument agree with the
\* number of values, and a placeholder has dimension 0 and holds nothing.
C5_LengthsEqualDimension ==
    \A k \in DOMAIN nets :
        /\ Len(nets[k].m_genValues) = Len(nets[k].m_generatingMatrices)
        /\ Len(nets[k].m_generatingMatrices) = dimension(nets[k])
        /\ origin[k].kind = "values" => dimension(nets[k]) = Len(origin[k].genValues)
        /\ origin[k].kind = "placeholder" =>
               /\ dimension(nets[k]) = 0
               /\ nets[k].m_generatingMatrices = <<>>
               /\ nets[k].m_genValues = <<>>

\* C6: generatingMatrix(coord) returns the matrix of coordinate coord when
\* coord < dimension(), and fails with an out-of-range error for every
\* coord >= dimension(); it never reads outside the stored sequence.
C6_LookupCheckedAgainstDimension ==
    res.op = "generatingMatrix" =>
        IF res.coord < dimension(nets[res.net])
        THEN /\ res.status = "ok"
             /\ res.coord + 1 \in DOMAIN nets[res.net].m_generatingMatrices
             /\ res.obj = nets[res.net].m_generatingMatrices[res.coord + 1]
        ELSE res.status = "out_of_range"

RECURSIVE RootOf(_)
\* the constructed net a net was extended from
RootOf(k) == IF origin[k].kind = "append" THEN RootOf(origin[k].parent) ELSE k

RECURSIVE AppendedValues(_)
\* the values appended, in order, on the way from the root to net k
AppendedValues(k) ==
    IF origin[k].kind = "append"
    THEN AppendedValues(origin[k].parent) \o origin[k].genValues
    ELSE <<>>

\* net k was grown from a dimension-0 placeholder
GrownFromPlaceholder(k) ==
    /\ origin[RootOf(k)].kind = "placeholder"
    /\ origin[RootOf(k)].dimArg = 0

\* C3: a net grown from a dimension-0 placeholder of size parameter s by
\* appending v0..v(n-1) one after the other equals, in dimension, row count,
\* column count and matrix for matrix, the net the constructor builds in one
\* call from (n, s, [v0..v(n-1)]), for every n >= 0.
C3_GrowthEqualsDirectConstruction ==
    \A k \in DOMAIN nets :
        GrownFromPlaceholder(k) =>
            LET vs == AppendedValues(k)
                direct == DigitalNet(Len(vs), nets[k].m_sizeParameter, vs, <<>>, <<>>)
            IN  /\ dimension(nets[k]) = dimension(direct.net)
                /\ numRows(nets[k]) = numRows(direct.net)
                /\ numColumns(nets[k]) = numColumns(direct.net)
                /\ Matrices(nets[k])
                     = [j \in DOMAIN direct.net.m_generatingMatrices |->
                            direct.matHeap[direct.net.m_generatingMatrices[j]]]

\* two different values appended in turn to a dimension-0 placeholder
C3_Witness ==
    \E k \in DOMAIN nets :
        /\ GrownFromPlaceholder(k)
        /\ AppendedValues(k) = <<2, 1>>
        /\ dimension(nets[k]) = 2

\* C7: numPoints() and size() are 2^numColumns() exactly for every column
\* count the integer type holds (numColumns() < UIntBits), column count 0
\* included, and are computed from the stored column count alone.
C7_NumPointsIsPowerOfTwo ==
    res.op \in {"numPoints", "size"} =>
        /\ numColumns(nets[res.net]) < UIntBits => res.value = 2^numColumns(nets[res.net])
        /\ \A k \in DOMAIN nets :
               numColumns(nets[k]) = numColumns(nets[res.net]) =>
                   /\ numPoints(nets[k]) = res.value
                   /\ size(nets[k]) = res.value

\* numPoints() at the largest supported column count
C7_Witness ==
    /\ res.op = "numPoints"
    /\ numColumns(nets[res.net]) = UIntBits - 1
    /\ res.value = 2^(UIntBits - 1)
    /\ dimension(nets[res.net]) > 0

\* C8: when 2^numColumns() does not fit uInteger (numColumns() >= UIntBits)
\* numPoints() reports a failure and never the wrapped 2^numColumns() mod
\* 2^UIntBits.
C8_OverflowGuarded ==
    (res.op = "numPoints" /\ numColumns(nets[res.net]) >= UIntBits) =>
        res.value # (2^numColumns(nets[res.net])) % UIntModulus

\* reading text back: decimal digits to a number
IsDigit(c) == \E d \in DOMAIN DigitChars : DigitChars[d] = c

DigitValue(c) == (CHOOSE d \in DOMAIN DigitChars : DigitChars[d] = c) - 1

RECURSIVE ParseInt(_)
ParseInt(digits) ==
    IF digits = <<>> THEN 0
    ELSE ParseInt(SubSeq(digits, 1, Len(digits) - 1)) * 10 + DigitValue(digits[Len(digits)])

RECURSIVE SplitFrom(_, _, _)
\* the newline-terminated lines of text and what follows the last newline
SplitFrom(text, current, lines) ==
    IF text = <<>> THEN [lines |-> lines, rest |-> current]
    ELSE IF Head(text) = endl
         THEN SplitFrom(Tail(text), <<>>, Append(lines, current))
         ELSE SplitFrom(Tail(text), Append(current, Head(text)), lines)

SplitLines(text) == SplitFrom(text, <<>>, <<>>)

\* a line '<integer>  // <comment>': decimal digits, then the comment
IsNumberedLine(line, n, comment) ==
    /\ Len(line) >= 2
    /\ \A j \in 1..(Len(line) - 1) : IsDigit(line[j])
    /\ line[1] = "0" => Len(line) = 2
    /\ ParseInt(SubSeq(line, 1, Len(line) - 1)) = n
    /\ line[Len(line)] = comment

\* what Style A reports, in order, for a net and an interlacing factor >= 1
TerminalFields(net, interlacingFactor) ==
    << <<numColumns(net), "  // Number of columns">>,
       <<numRows(net), "  // Number of rows">>,
       <<2^numColumns(net) % UIntModulus, "  // Number of points">>,
       <<dimension(net) \div interlacingFactor, "  // Dimension of points">> >>
    \o (IF interlacingFactor > 1
        THEN << <<interlacingFactor, "  // Interlacing factor">>,
                <<dimension(net),
                  "  // Number of components = interlacing factor x dimension">> >>
        ELSE <<>>)

\* the text is numLines lines '<integer>  // <comment>' reporting, in order,
\* column count, row count, point count, dimension() / interlacingFactor and,
\* for a factor above 1, the factor and dimension(); the traits' text follows
TerminalTextIs(text, net, interlacingFactor, numLines) ==
    LET split == SplitLines(text)
        fields == TerminalFields(net, interlacingFactor)
    IN  /\ Len(split.lines) = numLines
        /\ Len(split.lines) = Len(fields)
        /\ \A j \in DOMAIN fields :
               IsNumberedLine(split.lines[j], fields[j][1], fields[j][2])
        /\ split.rest = ConstructionMethodFormat(net.m_generatingMatrices, net.m_genValues,
                                                 net.m_sizeParameter, "TERMINAL",
                                                 interlacingFactor)

TerminalFormatReturned ==
    /\ res.op = "format"
    /\ res.outputStyle = "TERMINAL"
    /\ res.interlacingFactor >= 1

\* C10 as stated: Style A is five lines for interlacingFactor = 1 and seven
\* lines for interlacingFactor > 1, each '<integer>  // <comment>': column
\* count, row count, point count, dimension() / interlacingFactor, then for a
\* factor above 1 the factor and dimension(); formatExtra follows.
C10_FiveOrSevenLines ==
    TerminalFormatReturned =>
        /\ res.status = "ok"
        /\ TerminalTextIs(res.text, nets[res.net], res.interlacingFactor,
                          IF res.interlacingFactor = 1 THEN 5 ELSE 7)

\* C10 amended: Style A is four lines for interlacingFactor = 1 and six lines
\* for interlacingFactor > 1, each '<integer>  // <comment>': column count,
\* row count, point count, dimension() / interlacingFactor (integer
\* division), then for a factor above 1 the factor and dimension();
\* formatExtra follows.
C10_FourOrSixLines ==
    TerminalFormatReturned =>
        /\ res.status = "ok"
        /\ TerminalTextIs(res.text, nets[res.net], res.interlacingFactor,
                          IF res.interlacingFactor = 1 THEN 4 ELSE 6)

\* Style A of a net of odd dimension with interlacing factor 2
C10_Witness ==
    /\ TerminalFormatReturned
    /\ res.interlacingFactor = 2
    /\ dimension(nets[res.net]) = 3
    /\ Len(nets[res.net].m_generatingMatrices) = 3
    /\ Len(SplitLines(res.text).lines) = 6

\* C9: workers call appendNewCoordinate on the same parent at once with
\* their own values: under every interleaving each call yields its own child
\* of dimension d+1 whose first d slots are the parent's slots and whose last
\* slot is built from that worker's own value; no child holds another
\* child's new matrix or value object; and no net is written after its
\* construction, so the parent's sequences and dimension stay as they were.
C9_ConcurrentSiblingsIndependent ==
    /\ \A k \in DOMAIN nets : nets[k] = origin[k].made
    /\ \A k \in DOMAIN nets :
           origin[k].kind = "append" =>
               LET parent == nets[origin[k].parent]
                   child == nets[k]
                   d == dimension(parent)
               IN  /\ dimension(child) = d + 1
                   /\ \A j \in 0..(d - 1) : SameSlot(child, parent, j)
                   /\ Len(child.m_generatingMatrices) = d + 1
                   /\ Len(child.m_genValues) = d + 1
                   /\ Matrices(child)[d + 1]
                        = createGeneratingMatrix(origin[k].genValues[1],
                                                 parent.m_sizeParameter, d)
                   /\ Values(child)[d + 1] = origin[k].genValues[1]
                   /\ \A other \in DOMAIN nets \ {k} :
                          (origin[other].kind = "append"
                             /\ origin[other].parent = origin[k].parent) =>
                              /\ child.m_generatingMatrices[d + 1]
                                   \notin Range(nets[other].m_generatingMatrices)
                              /\ child.m_genValues[d + 1]
                                   \notin Range(nets[other].m_genValues)

\* the header lines of Style B, each without its newline
NetHeaderLines(net, interlacingFactor) ==
    LET d == to_string(dimension(net))
        k == to_string(numColumns(net))
    IN  << <<"# Parameters for a digital net in base 2">>,
           d \o <<"    # ">> \o d \o <<" dimensions">> >>
        \o (IF interlacingFactor > 1
            THEN << to_string(interlacingFactor) \o <<"  // Interlacing factor">>,
                    d \o <<"  // Number of components = interlacing factor x dimension">> >>
            ELSE <<>>)
        \o << k \o <<"   # k = ">> \o k \o <<",  n = 2^">> \o k \o <<" = ">>
                \o to_string(2^numColumns(net) % UIntModulus) \o <<" points">>,
              <<"31   # r = 31 binary output digits">>,
              <<IF interlacingFactor = 1
                THEN "# Columns of gen. matrices C_1,...,C_s, one matrix per line:"
                ELSE "# Columns of gen. matrices C_1,...,C_{ds}, one matrix per line:">> >>

\* every coordinate below dimension() has a stored matrix
HasAllCoordinates(net) ==
    \A j \in 1..dimension(net) : j \in DOMAIN net.m_generatingMatrices

\* line j of the matrix block: coordinate j - 1 rendered by formatToColumnsReverse
NetMatrixLine(net, j) == formatToColumnsReverse(matHeap[net.m_generatingMatrices[j]])

\* C11: Style B of a net of dimension d >= 0 is, in order, the header comment
\* line, '<d>    # <d> dimensions', the optional interlacing lines, the
\* 'k = .., n = 2^k = ..' line, '31   # r = 31 binary output digits', the
\* complete header line of the matrix block, then exactly d lines, line i
\* the matrix of coordinate i by formatToColumnsReverse; the block ends right
\* after the last matrix line, no blank line follows it, no character of a
\* header line (its newline included) is missing, and formatExtra follows.
C11_NetStyleGrammar ==
    (res.op = "format" /\ res.outputStyle = "NET") =>
        LET net == nets[res.net]
            d == dimension(net)
            header == NetHeaderLines(net, res.interlacingFactor)
            extra == ConstructionMethodFormat(net.m_generatingMatrices, net.m_genValues,
                                              net.m_sizeParameter, "NET",
                                              res.interlacingFactor)
            split == SplitLines(res.text)
        IN  /\ res.status = "ok"
            /\ HasAllCoordinates(net)
            /\ IF d = 0
               THEN /\ split.lines = header
                    /\ split.rest = extra
               ELSE /\ split.lines = header \o [j \in 1..(d - 1) |-> NetMatrixLine(net, j)]
                    /\ split.rest = NetMatrixLine(net, d) \o extra

\* the nets, still alive, that hold a pointer to matrix object a
MatrixOwners(a) == {k \in alive : a \in Range(nets[k].m_generatingMatrices)}

\* the nets, still alive, that hold a pointer to value object a
ValueOwners(a) == {k \in alive : a \in Range(nets[k].m_genValues)}

\* a matrix or value object is released exactly when no net that is alive
\* refers to it
ReleasedWithLastOwner ==
    /\ \A a \in DOMAIN matHeap : (matUse[a] = 0) <=> (MatrixOwners(a) = {})
    /\ \A a \in DOMAIN valHeap : (valUse[a] = 0) <=> (ValueOwners(a) = {})

\* generatingMatrix(coord) of net k returns a matrix object that is not
\* released and holds what it held when net k was made
ReturnsValidUnchanged(k, coord) ==
    \A out \in generatingMatrix(nets[k], coord, matHeap) :
        /\ out.status = "ok"
        /\ matUse[out.obj] > 0
        /\ coord + 1 \in DOMAIN origin[k].matrices
        /\ matHeap[out.obj] = origin[k].matrices[coord + 1]

\* C12: after any sequence of constructions, extensions and destructions a
\* matrix/value object is released exactly when the last net referring to it
\* is destroyed, and a child made by appendNewCoordinate on a net of
\* dimension d returns valid, unchanged matrices for all its d + 1
\* coordinates, whichever other nets have been destroyed.
C12_SharedOwnership ==
    /\ ReleasedWithLastOwner
    /\ \A k \in alive :
           origin[k].kind = "append" =>
               \A coord \in 0..(dimension(nets[k]) - 1) : ReturnsValidUnchanged(k, coord)

\* C13: in every net, the dimension-0 nets included, numRows() and
\* numColumns() are the traits' nRows and nCols of sizeParameter(); a net
\* reached from a root by any chain of appendNewCoordinate has the root's
\* size parameter, row count and column count; isSequenceViewable() returns
\* the construction method's flag and sizeParameter() the stored parameter.
C13_SizeParameterCarriedOver ==
    /\ \A k \in DOMAIN nets :
           LET net == nets[k]
               root == nets[RootOf(k)]
           IN  /\ numRows(net) = nRows(sizeParameterOf(net))
               /\ numColumns(net) = nCols(sizeParameterOf(net))
               /\ sizeParameterOf(net) = sizeParameterOf(root)
               /\ numRows(net) = numRows(root)
               /\ numColumns(net) = numColumns(root)
               /\ isSequenceViewable(net) = isSequenceViewableFlag
    /\ res.op = "isSequenceViewable" => res.value = isSequenceViewableFlag
    /\ res.op = "sizeParameter" => res.value = sizeParameterOf(nets[RootOf(res.net)])

\* a net two extensions away from a dimension-0 root of size parameter 2 is
\* asked for isSequenceViewable()
C13_Witness ==
    /\ res.op = "isSequenceViewable"
    /\ origin[res.net].kind = "append"
    /\ origin[origin[res.net].parent].kind = "append"
    /\ dimension(nets[RootOf(res.net)]) = 0
    /\ sizeParameterOf(nets[RootOf(res.net)]) = 2
    /\ numRows(nets[res.net]) = 2
    /\ numColumns(nets[res.net]) = 2

====
